---- MODULE Spec2Model ----
(***************************************************************************)
(* Continuous streaming recognition session of unmarketable-tomato.       *)
(*                                                                         *)
(* The session implementations are modelled, selected by `variant`:       *)
(*   "inproc" : the in-process capture session (AudioContext + processor) *)
(*   "sox"    : the external recording-process session (sox subprocess)   *)
(*   "legacy" : the in-process session without reconnect                  *)
(* Time is in milliseconds and advances only when a timer fires.          *)
(***************************************************************************)
EXTENDS Integers, Sequences, FiniteSets, TLC

\* ---------------------------------------------------------------- bounds
MaxStreams == 3
MaxStops == 2
MaxFrames == 32
MaxDirect == 2
MaxNow == 250000
MaxBackend == 2
MaxJitter == 1
MaxStarts == 2
MaxSample == 24
SampleDen == 8
MaxQuantum == 128

\* ------------------------------------------------------ program constants
RefreshCheckMs == 10000
RefreshAfterMs == 230000
RestartDelayMs == 100
BufferMax == 30
Int16Max == 32767
WorkletScale == 32768
SampleRateHz == 16000
WorkletBufferSize == 4096
ScriptBufferSize == 2048
LegacyScriptBufferSize == 4096
BytesPerInt16 == 2
BytesPerFloat32 == 4

\* How long before a refresh check a backend event can still overtake it.
PreTickMs == RestartDelayMs \div 2

VARIABLES
    variant,          \* which session implementation this object is
    capturePath,      \* "worklet" if addModule succeeds, "script" if it falls back
    lateness,         \* how many ms after its due time an interval callback runs
    pc,               \* progress of start(): "idle", "starting", "started", "failed"
    isRecording,
    recognizeStream,  \* id of the current handle, 0 for null
    streams,          \* every handle ever opened, by id
    refreshInterval,  \* id of the interval the session points at, 0 for null
    intervals,        \* intervals that are scheduled: records [id, due]
    streamStartTime,
    now,
    timeouts,         \* due times of the pending restartStream timeouts, FIFO
    audioBuffer,
    audioStream,      \* TRUE when this.audioStream is a media stream
    audioContext,     \* TRUE when this.audioContext is set
    capturePending,   \* startAudioCapture calls suspended at their await
    pipelines,        \* capture pipelines whose callbacks still fire
    recordProcess,    \* TRUE when this.recordProcess is set
    proc,             \* the sox subprocess: "none", "failing" (spawn will report an
                      \* error), "failed", "running", "killed", "exited", "closed"
    pipeDest,         \* handle the subprocess stdout is piped to, 0 for none
    events,           \* events emitted to the caller, in order
    written,          \* writes reaching a handle: records [h, f, ok]
    nextFrame,        \* frames captured so far
    direct,           \* frames captured outside a reconnect gap
    backendEvents,    \* 'error' and 'end' events the backend has delivered
    stopCalls,
    stoppedIn,        \* pc when stop() was first called, "none" before
    pendingAtStop,    \* pending reconnects when stop() was first called
    fatal,            \* a non-expiry error hit the current handle
    gap,              \* frames captured while active with no usable handle
    restartAt,        \* when the timer called restartStream for the current handle, -1 if not
    startCalls,       \* calls of start() so far
    spawns,           \* recording processes launched so far
    soxInstalled,     \* the sox executable can be launched
    checksSox,        \* the session runs checkSoxAvailability() when constructed
    transcripts,      \* transcripts carried by the 'interim' and 'final' events, in order
    thrown,           \* a 'data' handler has thrown
    sample,           \* numerator of the input sample under conversion, over SampleDen
    converted,        \* the last conversion: record [by, out], or the record of no conversion
    bufferIndex,      \* samples waiting in the worklet's buffer
    pcmFrame          \* the last block written: record [by, captured, samples]

vars == <<variant, capturePath, lateness, pc, isRecording, recognizeStream, streams,
          refreshInterval, intervals, streamStartTime, now, timeouts,
          audioBuffer, audioStream, audioContext, capturePending, pipelines,
          recordProcess, proc, pipeDest, events, written, nextFrame, direct,
          stopCalls, stoppedIn, pendingAtStop, fatal, gap, restartAt,
          backendEvents, startCalls, spawns, soxInstalled, checksSox, transcripts, thrown,
          sample, converted, bufferIndex, pcmFrame>>

sessionVars == <<isRecording, recognizeStream, streams, refreshInterval,
                 intervals, streamStartTime>>
captureVars == <<audioStream, audioContext, capturePending, pipelines>>
soxVars == <<recordProcess, proc, pipeDest>>
frameVars == <<written, nextFrame, direct, audioBuffer, gap>>
stopVars == <<stopCalls, stoppedIn, pendingAtStop>>
envVars == <<variant, capturePath, lateness>>
soxEnvVars == <<soxInstalled, checksSox>>
dataVars == <<transcripts, thrown>>
convVars == <<sample, converted, bufferIndex, pcmFrame>>
extVars == <<soxEnvVars, dataVars, convVars>>

\* ---------------------------------------------------------------- helpers
Max(a, b) == IF a >= b THEN a ELSE b

Min(a, b) == IF a <= b THEN a ELSE b

Count(e, s) == Cardinality({i \in 1..Len(s) : s[i] = e})

LastK(s, k) == SubSeq(s, Len(s) - Min(k, Len(s)) + 1, Len(s))

\* Error messages the backend can report, as token sequences.
Messages ==
    { <<"4", "DEADLINE_EXCEEDED", "Deadline", "exceeded">>,
      <<"stream", "deadline", "reached">>,
      <<"14", "UNAVAILABLE", "connection", "reset">>,
      <<"Exceeded", "maximum", "allowed", "stream", "duration">> }

includes(msg, tok) == \E i \in 1..Len(msg) : msg[i] = tok

\* The classification made by the 'error' handler.
IsExpiry(msg) == includes(msg, "deadline") \/ includes(msg, "DEADLINE_EXCEEDED")

\* The language code the constructor stores (its default argument).
languageCode == "en-US"

\* The request startRecognition() builds; every reconnect reuses it.
streamRequest ==
    [encoding |-> IF variant = "legacy" THEN "WEBM_OPUS" ELSE "LINEAR16",
     sampleRateHertz |-> SampleRateHz,
     languageCode |-> languageCode,
     enableAutomaticPunctuation |-> TRUE,
     interimResults |-> TRUE]

\* client.streamingRecognize(request): a handle that is open, accepts writes
\* and has reported nothing yet.
FreshHandle ==
    [ended |-> FALSE, destroyed |-> FALSE, erred |-> FALSE, endEmitted |-> FALSE,
     needDrain |-> FALSE, request |-> streamRequest]

EndHandle_missing(strs, h) == strs

\* recognizeStream.end() on handle h (h = 0: nothing to end).
EndHandle(strs, h) == IF h = 0 THEN strs ELSE [strs EXCEPT ![h].ended = TRUE]

\* this.recognizeStream && !this.recognizeStream.destroyed
Usable == recognizeStream # 0 /\ ~streams[recognizeStream].destroyed

ClearInterval_kept(ivs, id) == ivs

\* clearInterval(this.refreshInterval)
ClearInterval(ivs, id) == {iv \in ivs : iv.id # id}

NoConversion == [by |-> "none", out |-> 0]
NoBlock == [by |-> "none", captured |-> 0, samples |-> 0]

\* The fields the constructor sets, and the bookkeeping of a fresh session.
InitFields ==
    /\ pc = "idle"
    /\ isRecording = FALSE
    /\ recognizeStream = 0
    /\ streams = <<>>
    /\ refreshInterval = 0
    /\ intervals = {}
    /\ streamStartTime = 0
    /\ now = 0
    /\ timeouts = <<>>
    /\ audioBuffer = <<>>
    /\ audioStream = FALSE
    /\ audioContext = FALSE
    /\ capturePending = 0
    /\ pipelines = 0
    /\ recordProcess = FALSE
    /\ proc = "none"
    /\ pipeDest = 0
    /\ events = <<>>
    /\ written = <<>>
    /\ nextFrame = 0
    /\ direct = 0
    /\ stopCalls = 0
    /\ stoppedIn = "none"
    /\ pendingAtStop = 0
    /\ fatal = FALSE
    /\ gap = <<>>
    /\ restartAt = -1
    /\ backendEvents = 0
    /\ startCalls = 0
    /\ spawns = 0
    /\ transcripts = <<>>
    /\ thrown = FALSE
    /\ converted = NoConversion
    /\ bufferIndex = 0
    /\ pcmFrame = NoBlock

\* A session with reconnect, with sox installed.
Init ==
    /\ variant \in {"inproc", "sox"}
    /\ capturePath \in {"worklet", "script"}
    /\ (variant = "sox") => (capturePath = "script")
    /\ lateness \in 0..MaxJitter
    /\ soxInstalled = TRUE
    /\ checksSox = FALSE
    /\ sample = 0
    /\ InitFields

\* ------------------------------------------------------------- operations

\* createRecognizeStream at time t: end the current handle, restart the
\* refresh interval, open the replacement; the in-process session also calls
\* startAudioCapture, which suspends at its first await.
createRecognizeStream(t) ==
    LET new == Len(streams) + 1 IN
    /\ streams' = Append(EndHandle(streams, recognizeStream), FreshHandle)
    /\ recognizeStream' = new
    /\ streamStartTime' = t
    /\ intervals' = ClearInterval(intervals, refreshInterval)
                        \cup {[id |-> new, due |-> t + RefreshCheckMs]}
    /\ refreshInterval' = new
    /\ capturePending' = IF variant = "inproc" THEN capturePending + 1 ELSE capturePending
    /\ restartAt' = -1

\* restartStream(): schedule the reconnect after the fixed delay.
restartStream == timeouts' = Append(timeouts, now' + RestartDelayMs)

\* start() of the in-process session, called when start() has progressed to
\* `from`, up to its await of getAudioStream().
callStart_inproc(from) ==
    /\ variant = "inproc"
    /\ pc = from
    /\ startCalls' = startCalls + 1
    /\ pc' = "starting"
    /\ UNCHANGED <<sessionVars, captureVars, soxVars, frameVars, stopVars, envVars, extVars,
                   spawns, backendEvents, now, timeouts, events, fatal, restartAt>>

\* The caller starts a fresh in-process session.
start_inproc ==
    /\ stopCalls = 0
    /\ callStart_inproc("idle")

\* getUserMedia resolved: start() goes on with startRecognition() and emits 'start'.
getAudioStreamResolved ==
    /\ variant = "inproc"
    /\ pc = "starting"
    /\ Len(streams) < MaxStreams
    /\ audioStream' = TRUE
    /\ createRecognizeStream(now)
    /\ events' = Append(events, "start")
    /\ pc' = "started"
    /\ UNCHANGED <<isRecording, audioContext, pipelines, soxVars, frameVars, stopVars,
                   envVars, extVars, startCalls, spawns, backendEvents, now, timeouts, fatal>>

getAudioStreamRejected_silent ==
    /\ pc = "starting"
    /\ pc' = "failed"
    /\ UNCHANGED <<sessionVars, captureVars, soxVars, frameVars, stopVars, envVars, extVars,
                   startCalls, spawns, backendEvents, now, timeouts, events, fatal, restartAt>>

\* getUserMedia rejected: start() emits 'error' and rethrows.
getAudioStreamRejected ==
    /\ pc = "starting"
    /\ events' = Append(events, "error")
    /\ pc' = "failed"
    /\ UNCHANGED <<sessionVars, captureVars, soxVars, frameVars, stopVars, envVars, extVars, startCalls, spawns, backendEvents,
                   now, timeouts, fatal, restartAt>>

\* start() of the recording-process session, called when start() has
\* progressed to `from`.  The session that checked for sox when constructed
\* throws when it found none; otherwise start() runs to its emit('start'), and
\* spawn() of a missing executable reports its failure later.
callStart_sox(from) ==
    /\ variant = "sox"
    /\ pc = from
    /\ startCalls' = startCalls + 1
    /\ IF checksSox /\ ~soxInstalled
         THEN /\ events' = Append(events, "error")
              /\ pc' = "failed"
              /\ UNCHANGED <<sessionVars, capturePending, restartAt, soxVars, spawns>>
         ELSE /\ Len(streams) < MaxStreams
              /\ isRecording' = TRUE
              /\ createRecognizeStream(now)
              /\ recordProcess' = TRUE
              /\ spawns' = spawns + 1
              /\ proc' = IF soxInstalled THEN "running" ELSE "failing"
              /\ pipeDest' = recognizeStream'
              /\ events' = Append(events, "start")
              /\ pc' = "started"
    /\ UNCHANGED <<audioStream, audioContext, pipelines, frameVars, stopVars, envVars, extVars,
                   backendEvents, now, timeouts, fatal>>

\* The caller starts a fresh recording-process session.
start_sox ==
    /\ stopCalls = 0
    /\ callStart_sox("idle")

\* The caller calls start() again on a session that is active.
restart_inproc ==
    /\ isRecording
    /\ startCalls < MaxStarts
    /\ callStart_inproc("started")

restart_sox ==
    /\ isRecording
    /\ startCalls < MaxStarts
    /\ callStart_sox("started")

\* startAudioCapture() after its await: createMediaStreamSource throws when
\* this.audioStream is null, otherwise the pipeline is connected and
\* isRecording becomes true.
startAudioCaptureResumed ==
    /\ capturePending > 0
    /\ capturePending' = capturePending - 1
    /\ IF audioStream
         THEN /\ pipelines' = pipelines + 1
              /\ audioContext' = TRUE
              /\ isRecording' = TRUE
         ELSE UNCHANGED <<pipelines, audioContext, isRecording>>
    /\ UNCHANGED <<recognizeStream, streams, refreshInterval, intervals, streamStartTime,
                   audioStream, soxVars, frameVars, stopVars, envVars, extVars, startCalls, spawns, backendEvents, pc, now, timeouts,
                   events, fatal, restartAt>>

\* The buffering branch: push, then shift when longer than the maximum.
bufferPush(buf, f) ==
    LET pushed == Append(buf, f) IN
    IF Len(pushed) > BufferMax THEN Tail(pushed) ELSE pushed

\* recognizeStream.write(audioData) on the current handle.
write(f) == written' = Append(written, [h |-> recognizeStream, f |-> f, ok |-> TRUE])

\* processor.port.onmessage with an 'audio' message carrying frame f: the
\* whole body is under the outer usable-handle condition.
onmessage(f) ==
    IF Usable
      THEN IF Usable
             THEN /\ write(f)
                  /\ UNCHANGED audioBuffer
             ELSE /\ audioBuffer' = bufferPush(audioBuffer, f)
                  /\ UNCHANGED written
      ELSE UNCHANGED <<written, audioBuffer>>

\* processor.onaudioprocess with frame f.
onaudioprocess(f) ==
    IF Usable
      THEN /\ write(f)
           /\ UNCHANGED audioBuffer
      ELSE IF isRecording
             THEN /\ audioBuffer' = bufferPush(audioBuffer, f)
                  /\ UNCHANGED written
             ELSE UNCHANGED <<written, audioBuffer>>

\* The session is active and has no usable handle.
InGapWindow == isRecording /\ ~Usable

\* One capture callback of a live pipeline of the in-process session.
Frame(maxF) ==
    /\ variant = "inproc"
    /\ pipelines > 0
    /\ nextFrame < maxF
    /\ InGapWindow \/ direct < MaxDirect
    /\ nextFrame' = nextFrame + 1
    /\ direct' = IF InGapWindow THEN direct ELSE direct + 1
    /\ gap' = IF InGapWindow THEN Append(gap, nextFrame') ELSE gap
    /\ IF capturePath = "worklet" THEN onmessage(nextFrame') ELSE onaudioprocess(nextFrame')
    /\ UNCHANGED <<sessionVars, captureVars, soxVars, stopVars, envVars, extVars, startCalls, spawns, backendEvents, pc, now,
                   timeouts, events, fatal, restartAt>>

onStreamError_surfacing(msg) ==
    /\ events' = Append(events, "error")
    /\ IF ~includes(msg, "deadline") /\ ~includes(msg, "DEADLINE_EXCEEDED")
         THEN UNCHANGED timeouts
         ELSE restartStream

\* The 'error' handler of a handle: surface the error unless its message
\* names a deadline, in which case reconnect.
onStreamError(msg) ==
    IF ~includes(msg, "deadline") /\ ~includes(msg, "DEADLINE_EXCEEDED")
      THEN /\ events' = Append(events, "error")
           /\ UNCHANGED timeouts
      ELSE /\ restartStream
           /\ UNCHANGED events

\* One chunk of the subprocess stdout flowing through the pipe.  A chunk that
\* reaches a handle the session has ended fails with write-after-end: the
\* handle errors, the pipe detaches and the 'error' handler runs.
SoxData(maxF) ==
    /\ variant = "sox"
    /\ proc \in {"running", "killed"}
    /\ pipeDest # 0
    /\ nextFrame < maxF
    /\ nextFrame' = nextFrame + 1
    /\ now' = now
    /\ IF streams[pipeDest].ended
         THEN /\ written' = Append(written, [h |-> pipeDest, f |-> nextFrame', ok |-> FALSE])
              /\ streams' = [streams EXCEPT ![pipeDest].erred = TRUE,
                                            ![pipeDest].destroyed = TRUE]
              /\ pipeDest' = 0
              /\ onStreamError(<<"write", "after", "end">>)
              /\ UNCHANGED direct
         ELSE /\ direct < MaxDirect
              /\ direct' = direct + 1
              /\ written' = Append(written, [h |-> pipeDest, f |-> nextFrame', ok |-> TRUE])
              /\ UNCHANGED <<streams, pipeDest, events, timeouts>>
    /\ UNCHANGED <<isRecording, recognizeStream, refreshInterval, intervals, streamStartTime,
                   captureVars, recordProcess, proc, audioBuffer, gap, stopVars, envVars, extVars, startCalls, spawns, backendEvents,
                   pc, fatal, restartAt>>

\* The 'error' handler of the session without reconnect: every error is
\* surfaced.
onStreamError_legacy(msg) ==
    /\ events' = Append(events, "error")
    /\ UNCHANGED timeouts

\* The backend fails handle h with message msg.
BackendError(h, msg) ==
    /\ h \in 1..Len(streams)
    /\ ~streams[h].erred
    /\ ~streams[h].endEmitted
    /\ backendEvents < MaxBackend
    /\ backendEvents' = backendEvents + 1
    /\ streams' = [streams EXCEPT ![h].erred = TRUE, ![h].destroyed = TRUE]
    /\ pipeDest' = IF pipeDest = h THEN 0 ELSE pipeDest
    /\ now' = now
    /\ IF variant = "legacy" THEN onStreamError_legacy(msg) ELSE onStreamError(msg)
    /\ fatal' = (fatal \/ (h = recognizeStream /\ ~IsExpiry(msg)))
    /\ UNCHANGED <<isRecording, recognizeStream, refreshInterval, intervals, streamStartTime,
                   captureVars, recordProcess, proc, frameVars, stopVars, envVars, extVars, startCalls, spawns, pc,
                   restartAt>>

\* The 'end' handler of a handle.
onStreamEnd ==
    IF isRecording THEN restartStream ELSE UNCHANGED timeouts

\* The backend ends handle h; the library may or may not mark it destroyed.
BackendEnd(h, d) ==
    /\ h \in 1..Len(streams)
    /\ ~streams[h].endEmitted
    /\ d => h = recognizeStream
    /\ backendEvents < MaxBackend
    /\ backendEvents' = backendEvents + 1
    /\ streams' = [streams EXCEPT ![h].endEmitted = TRUE,
                                  ![h].destroyed = (streams[h].destroyed \/ d)]
    /\ pipeDest' = IF pipeDest = h /\ d THEN 0 ELSE pipeDest
    /\ now' = now
    /\ IF variant = "legacy" THEN UNCHANGED timeouts ELSE onStreamEnd
    /\ UNCHANGED <<isRecording, recognizeStream, refreshInterval, intervals, streamStartTime,
                   captureVars, recordProcess, proc, frameVars, stopVars, envVars, extVars, startCalls, spawns, pc,
                   events, fatal, restartAt>>

\* A write to the current handle returned false: the handle is above its
\* high-water mark and will emit 'drain' when it can accept data again.
WriteReturnsFalse ==
    /\ Usable
    /\ ~streams[recognizeStream].needDrain
    /\ \E i \in 1..Len(written) : written[i].h = recognizeStream /\ written[i].ok
    /\ streams' = [streams EXCEPT ![recognizeStream].needDrain = TRUE]
    /\ UNCHANGED <<isRecording, recognizeStream, refreshInterval, intervals, streamStartTime,
                   captureVars, soxVars, frameVars, stopVars, envVars, extVars, startCalls,
                   spawns, backendEvents, pc, now, timeouts, events, fatal, restartAt>>

\* Handle h emits 'drain'; no session code listens for it.
HandleDrained(h) ==
    /\ h \in 1..Len(streams)
    /\ streams[h].needDrain
    /\ streams' = [streams EXCEPT ![h].needDrain = FALSE]
    /\ UNCHANGED <<isRecording, recognizeStream, refreshInterval, intervals, streamStartTime,
                   captureVars, soxVars, frameVars, stopVars, envVars, extVars, startCalls,
                   spawns, backendEvents, pc, now, timeouts, events, fatal, restartAt>>

\* spawn('sox') could not launch the executable: the process object emits
\* 'error' after start() has returned, and its 'error' handler surfaces it.
ProcSpawnError ==
    /\ proc = "failing"
    /\ proc' = "failed"
    /\ events' = Append(events, "error")
    /\ UNCHANGED <<sessionVars, captureVars, recordProcess, pipeDest, frameVars, stopVars,
                   envVars, extVars, startCalls, spawns, backendEvents, pc, now, timeouts,
                   fatal, restartAt>>

\* How the recording process can exit: with code 0, with a non-zero code, or
\* by a signal (code null).
ExitCodes == {"0", "1", "null"}

\* The 'exit' handler of the recording process.
onProcExit(code) ==
    IF code # "0" /\ code # "null" /\ isRecording
      THEN events' = Append(events, "error")
      ELSE UNCHANGED events

\* The recording process exits.
ProcExit(code) ==
    /\ proc \in {"running", "killed"}
    /\ proc' = "exited"
    /\ onProcExit(code)
    /\ UNCHANGED <<sessionVars, captureVars, recordProcess, pipeDest, frameVars, stopVars,
                   envVars, extVars, startCalls, spawns, backendEvents, pc, now, timeouts,
                   fatal, restartAt>>

\* The stdout of the exited process ends: the pipe ends the handle it feeds.
StdoutEnd ==
    /\ proc = "exited"
    /\ proc' = "closed"
    /\ streams' = EndHandle(streams, pipeDest)
    /\ pipeDest' = 0
    /\ UNCHANGED <<isRecording, recognizeStream, refreshInterval, intervals, streamStartTime,
                   captureVars, recordProcess, frameVars, stopVars, envVars, extVars,
                   startCalls, spawns, backendEvents, pc, now, timeouts, events, fatal,
                   restartAt>>

\* Math.floor(n / d) for d > 0.
Floor(n, d) == n \div d

\* The integer part of n / d for d > 0, rounding towards zero.
Trunc(n, d) == IF n >= 0 THEN n \div d ELSE -((-n) \div d)

Int16Min == -Int16Max - 1

\* Storing v into an Int16Array element: the integer part, wrapped to 16 bits.
\* v is the fraction n / d.
ToInt16(n, d) == ((Trunc(n, d) - Int16Min) % (2 * (Int16Max + 1))) + Int16Min

\* outputBuffer[j] = Math.max(-32768, Math.min(32767, x * 32768)) of the
\* worklet processor and of the session without reconnect, for x = n / SampleDen.
convertScaled(n) ==
    ToInt16(Max(Int16Min * SampleDen, Min(Int16Max * SampleDen, n * WorkletScale)), SampleDen)

\* int16Buffer[i] = Math.max(-32768, Math.min(32767, Math.floor(x * 32767)))
\* of the in-process session's capture callbacks, for x = n / SampleDen.
convertFloored(n) ==
    ToInt16(Max(Int16Min, Min(Int16Max, Floor(n * Int16Max, SampleDen))), 1)

Converters == {"AudioProcessor.process", "onmessage", "onaudioprocess", "legacy"}

\* The sample converter named c applied to the sample n / SampleDen.
convert(c, n) ==
    IF c \in {"onmessage", "onaudioprocess"} THEN convertFloored(n) ELSE convertScaled(n)

\* One sample goes through converter c.
Convert(c) ==
    /\ converted' = [by |-> c, out |-> convert(c, sample)]
    /\ UNCHANGED <<sessionVars, captureVars, soxVars, frameVars, stopVars, envVars,
                   soxEnvVars, dataVars, sample, bufferIndex, pcmFrame, startCalls, spawns,
                   backendEvents, pc, now,
                   timeouts, events, fatal, restartAt>>

\* What a result of a streaming response can carry as its alternatives:
\* the field absent, an empty list, one or two transcripts.
Alternatives ==
    { [present |-> FALSE, items |-> <<>>],
      [present |-> TRUE, items |-> <<>>],
      [present |-> TRUE, items |-> <<"hello">>],
      [present |-> TRUE, items |-> <<"hullo", "hello">>] }

Results == [alternatives : Alternatives, isFinal : BOOLEAN]

\* data.results of the responses the backend can send: none, one result, or
\* a result followed by a second one.
Responses ==
    {<<>>} \cup {<<r>> : r \in Results}
           \cup {<<r, [alternatives |-> [present |-> TRUE, items |-> <<"world">>],
                      isFinal |-> FALSE]>> : r \in Results}

emitTranscript_prepend(result) ==
    /\ events' = Append(events, IF result.isFinal THEN "final" ELSE "interim")
    /\ transcripts' = <<result.alternatives.items[1]>> \o transcripts

\* this.emit('final' | 'interim', transcript) for the first alternative.
emitTranscript(result) ==
    /\ events' = Append(events, IF result.isFinal THEN "final" ELSE "interim")
    /\ transcripts' = Append(transcripts, result.alternatives.items[1])

\* The 'data' handler of the sessions with reconnect.
onData(data) ==
    IF Len(data) > 0
      THEN IF data[1].alternatives.present /\ Len(data[1].alternatives.items) > 0
             THEN /\ emitTranscript(data[1])
                  /\ UNCHANGED thrown
             ELSE UNCHANGED <<events, transcripts, thrown>>
      ELSE UNCHANGED <<events, transcripts, thrown>>

\* The 'data' handler of the session without reconnect: it reads
\* result.alternatives[0].transcript without looking at the list first.
onData_legacy(data) ==
    IF Len(data) > 0
      THEN IF data[1].alternatives.present /\ Len(data[1].alternatives.items) > 0
             THEN /\ emitTranscript(data[1])
                  /\ UNCHANGED thrown
             ELSE /\ thrown' = TRUE
                  /\ UNCHANGED <<events, transcripts>>
      ELSE UNCHANGED <<events, transcripts, thrown>>

\* The backend sends a response on handle h.
BackendData(h, data) ==
    /\ h \in 1..Len(streams)
    /\ ~streams[h].erred
    /\ ~streams[h].endEmitted
    /\ backendEvents < MaxBackend
    /\ backendEvents' = backendEvents + 1
    /\ IF variant = "legacy" THEN onData_legacy(data) ELSE onData(data)
    /\ UNCHANGED <<sessionVars, captureVars, soxVars, frameVars, stopVars, envVars,
                   soxEnvVars, convVars, startCalls, spawns, pc, now, timeouts, fatal,
                   restartAt>>

\* start() of the session without reconnect up to its await of getAudioStream().
start_legacy ==
    /\ variant = "legacy"
    /\ pc = "idle"
    /\ stopCalls = 0
    /\ startCalls' = startCalls + 1
    /\ pc' = "starting"
    /\ UNCHANGED <<sessionVars, captureVars, soxVars, frameVars, stopVars, envVars, extVars,
                   spawns, backendEvents, now, timeouts, events, fatal, restartAt>>

\* getUserMedia resolved in the session without reconnect: startRecognition()
\* opens the handle, with no refresh interval and no 'end' handler, calls
\* startAudioCapture(), and start() emits 'start'.
startRecognition_legacy ==
    /\ variant = "legacy"
    /\ pc = "starting"
    /\ Len(streams) < MaxStreams
    /\ audioStream' = TRUE
    /\ streams' = Append(streams, FreshHandle)
    /\ recognizeStream' = Len(streams) + 1
    /\ capturePending' = capturePending + 1
    /\ events' = Append(events, "start")
    /\ pc' = "started"
    /\ UNCHANGED <<isRecording, refreshInterval, intervals, streamStartTime, audioContext,
                   pipelines, soxVars, frameVars, stopVars, envVars, extVars, startCalls,
                   spawns, backendEvents, now, timeouts, fatal, restartAt>>

\* One capture callback of the session without reconnect: the frame is
\* written if the handle is usable and dropped otherwise.
Frame_legacy ==
    /\ variant = "legacy"
    /\ pipelines > 0
    /\ nextFrame < MaxDirect
    /\ nextFrame' = nextFrame + 1
    /\ IF Usable THEN write(nextFrame') ELSE UNCHANGED written
    /\ UNCHANGED <<sessionVars, captureVars, soxVars, direct, audioBuffer, gap, stopVars,
                   envVars, extVars, startCalls, spawns, backendEvents, pc, now, timeouts,
                   events, fatal, restartAt>>

\* When the i-th next firing of interval iv runs.
FireTime(iv, i) == iv.due + i * RefreshCheckMs + lateness

\* elapsed > 230000 in the refresh check running at time t.
TooOld(t) == t - streamStartTime > RefreshAfterMs

\* The first firing of interval iv whose check finds the handle too old.
TriggerIndex(iv) ==
    CHOOSE i \in 0..(RefreshAfterMs \div RefreshCheckMs + 1) :
        /\ TooOld(FireTime(iv, i))
        /\ \A k \in 0..(i - 1) : ~TooOld(FireTime(iv, k))

TriggerTime(iv) == FireTime(iv, TriggerIndex(iv))

\* Timers run in the order they fall due.
TimeoutIsNext == \A iv \in intervals : Head(timeouts) <= TriggerTime(iv)

IntervalIsNext(iv) == IF timeouts = <<>> THEN TRUE ELSE Head(timeouts) > TriggerTime(iv)

\* The refresh checks of a scheduled interval up to the first one that finds
\* the handle too old and calls restartStream; the checks before it find
\* elapsed <= 230000 and do nothing.
TimerTick(iv) ==
    /\ iv \in intervals
    /\ IntervalIsNext(iv)
    /\ TriggerTime(iv) <= MaxNow
    /\ now' = TriggerTime(iv)
    /\ intervals' = (intervals \ {iv})
         \cup {[id |-> iv.id, due |-> iv.due + (TriggerIndex(iv) + 1) * RefreshCheckMs]}
    /\ restartStream
    /\ restartAt' = IF restartAt = -1 THEN now' ELSE restartAt
    /\ UNCHANGED <<isRecording, recognizeStream, streams, refreshInterval, streamStartTime,
                   captureVars, soxVars, frameVars, stopVars, envVars, extVars, startCalls, spawns, backendEvents, pc,
                   events, fatal>>

\* Time passes, with no timer falling due, until shortly before the refresh
\* check that will find the handle too old.
Advance(iv) ==
    /\ iv \in intervals
    /\ now < TriggerTime(iv) - PreTickMs
    /\ TriggerTime(iv) <= MaxNow
    /\ IF timeouts = <<>> THEN TRUE ELSE Head(timeouts) > TriggerTime(iv) - PreTickMs
    /\ now' = TriggerTime(iv) - PreTickMs
    /\ UNCHANGED <<sessionVars, captureVars, soxVars, frameVars, stopVars, envVars, extVars, startCalls, spawns,
                   backendEvents, pc, timeouts, events, fatal, restartAt>>

drain_lifo(buf, h) ==
    [i \in 1..Len(buf) |-> [h |-> h, f |-> buf[Len(buf) + 1 - i], ok |-> TRUE]]

\* The buffered frames written to handle h in FIFO order.
drain(buf, h) == [i \in 1..Len(buf) |-> [h |-> h, f |-> buf[i], ok |-> TRUE]]

StillRecording_never == FALSE

StillRecording_skipped == TRUE

\* if (this.isRecording) in the callback restartStream scheduled.
StillRecording == isRecording

\* The callback restartStream scheduled.
TimeoutFire ==
    /\ timeouts # <<>>
    /\ TimeoutIsNext
    /\ now' = Max(now, Head(timeouts))
    /\ timeouts' = Tail(timeouts)
    /\ IF StillRecording
         THEN /\ Len(streams) < MaxStreams
              /\ createRecognizeStream(now')
              /\ IF variant = "inproc"
                   THEN /\ written' = written \o drain(audioBuffer, recognizeStream')
                        /\ audioBuffer' = <<>>
                        /\ gap' = <<>>
                        /\ UNCHANGED pipeDest
                   ELSE /\ pipeDest' = IF recordProcess /\ proc # "killed"
                                         THEN recognizeStream' ELSE 0
                        /\ UNCHANGED <<written, audioBuffer, gap>>
         ELSE UNCHANGED <<recognizeStream, streams, refreshInterval, intervals,
                          streamStartTime, capturePending, restartAt, written,
                          audioBuffer, gap, pipeDest>>
    /\ UNCHANGED <<isRecording, audioStream, audioContext, pipelines, recordProcess, proc,
                   nextFrame, direct, stopVars, envVars, extVars, startCalls, spawns, backendEvents, pc, events, fatal>>

\* stop()
stop ==
    /\ stopCalls < MaxStops
    /\ stopCalls' = stopCalls + 1
    /\ stoppedIn' = IF stopCalls = 0 THEN pc ELSE stoppedIn
    /\ pendingAtStop' = IF stopCalls = 0 THEN Len(timeouts) ELSE pendingAtStop
    /\ isRecording' = FALSE
    /\ intervals' = ClearInterval(intervals, refreshInterval)
    /\ refreshInterval' = 0
    /\ streams' = EndHandle(streams, recognizeStream)
    /\ recognizeStream' = 0
    /\ pipelines' = IF audioContext THEN pipelines - 1 ELSE pipelines
    /\ audioContext' = FALSE
    /\ audioStream' = FALSE
    /\ proc' = IF recordProcess /\ proc = "running" THEN "killed" ELSE proc
    /\ recordProcess' = FALSE
    /\ events' = Append(events, "stop")
    /\ UNCHANGED <<streamStartTime, capturePending, pipeDest, frameVars, envVars, extVars, startCalls, spawns, backendEvents, pc, now,
                   timeouts, fatal, restartAt>>

\* ---------------------------------------------------------- specifications

\* The backend fails some handle with some message.
StreamError == \E h \in 1..MaxStreams, msg \in Messages : BackendError(h, msg)

\* The backend ends some handle.
StreamEnd == \E h \in 1..MaxStreams, d \in BOOLEAN : BackendEnd(h, d)

RefreshCheck == \E iv \in intervals : TimerTick(iv)

TimePasses == \E iv \in intervals : Advance(iv)

\* The session over its whole lifecycle, with a few frames.
Next ==
    \/ start_inproc
    \/ getAudioStreamResolved
    \/ getAudioStreamRejected
    \/ start_sox
    \/ startAudioCaptureResumed
    \/ Frame(MaxDirect)
    \/ SoxData(MaxDirect)
    \/ StreamError
    \/ StreamEnd
    \/ RefreshCheck
    \/ TimePasses
    \/ TimeoutFire
    \/ stop

Spec == Init /\ [][Next]_vars

\* The in-process session up to the first refresh check, with enough frames
\* to overflow the audio buffer.
NextAudio ==
    \/ start_inproc
    \/ getAudioStreamResolved
    \/ getAudioStreamRejected
    \/ startAudioCaptureResumed
    \/ Frame(MaxFrames)
    \/ StreamError
    \/ StreamEnd
    \/ TimeoutFire
    \/ stop

SpecAudio == Init /\ [][NextAudio]_vars

\* The backend sends some response on some handle.
StreamData == \E h \in 1..MaxStreams, data \in Responses : BackendData(h, data)

\* The events of a session with reconnect: everything but the audio frames.
NextEvents ==
    \/ start_inproc
    \/ getAudioStreamResolved
    \/ getAudioStreamRejected
    \/ start_sox
    \/ startAudioCaptureResumed
    \/ StreamError
    \/ StreamEnd
    \/ StreamData
    \/ RefreshCheck
    \/ TimePasses
    \/ TimeoutFire
    \/ stop

SpecEvents == Init /\ [][NextEvents]_vars

\* Any of the three session implementations, freshly constructed.
InitResults ==
    /\ variant \in {"inproc", "sox", "legacy"}
    /\ capturePath = "script"
    /\ lateness = 0
    /\ soxInstalled = TRUE
    /\ checksSox = FALSE
    /\ sample = 0
    /\ InitFields

\* Responses arriving at a started session of any implementation.
NextResults ==
    \/ start_inproc
    \/ getAudioStreamResolved
    \/ start_sox
    \/ start_legacy
    \/ startRecognition_legacy
    \/ StreamData
    \/ stop

SpecResults == InitResults /\ [][NextResults]_vars

\* A caller that calls start() a second time while the session is active.
NextReentry ==
    \/ start_inproc
    \/ restart_inproc
    \/ getAudioStreamResolved
    \/ getAudioStreamRejected
    \/ start_sox
    \/ restart_sox
    \/ startAudioCaptureResumed
    \/ Frame(MaxDirect)
    \/ SoxData(MaxDirect)
    \/ stop

SpecReentry == Init /\ [][NextReentry]_vars

\* A session of either implementation of each kind, with sox installed or not.
InitSox ==
    /\ variant \in {"inproc", "sox"}
    /\ capturePath = "script"
    /\ lateness = 0
    /\ soxInstalled \in BOOLEAN
    /\ checksSox \in BOOLEAN
    /\ (variant = "inproc") => (soxInstalled /\ ~checksSox)
    /\ sample = 0
    /\ InitFields

\* The recording process exits in some way.
ProcessExit == \E code \in ExitCodes : ProcExit(code)

\* Start-up and the life of the audio source.
NextSox ==
    \/ start_inproc
    \/ getAudioStreamResolved
    \/ getAudioStreamRejected
    \/ start_sox
    \/ startAudioCaptureResumed
    \/ SoxData(MaxDirect)
    \/ ProcSpawnError
    \/ ProcessExit
    \/ StdoutEnd
    \/ StreamError
    \/ StreamEnd
    \/ TimeoutFire
    \/ stop

SpecSox == InitSox /\ [][NextSox]_vars

\* An input sample between -MaxSample / SampleDen and MaxSample / SampleDen.
InitConv ==
    /\ variant = "inproc"
    /\ capturePath = "script"
    /\ lateness = 0
    /\ soxInstalled = TRUE
    /\ checksSox = FALSE
    /\ sample \in (-MaxSample)..MaxSample
    /\ InitFields

\* The sample goes through one of the converters.
NextConv == \E c \in Converters : Convert(c)

SpecConv == InitConv /\ [][NextConv]_vars

\* The events of a session with reconnect, where a timer that has fallen due
\* eventually runs its callback.
SpecLive == Init /\ [][NextEvents]_vars /\ WF_vars(TimeoutFire) /\ WF_vars(RefreshCheck)

\* The session without reconnect, freshly constructed.
InitLegacy ==
    /\ variant = "legacy"
    /\ capturePath \in {"worklet", "script"}
    /\ lateness = 0
    /\ soxInstalled = TRUE
    /\ checksSox = FALSE
    /\ sample = 0
    /\ InitFields

\* The session the renderer loads.
NextLegacy ==
    \/ start_legacy
    \/ startRecognition_legacy
    \/ getAudioStreamRejected
    \/ startAudioCaptureResumed
    \/ Frame_legacy
    \/ StreamError
    \/ StreamEnd
    \/ StreamData
    \/ stop

SpecLegacy == InitLegacy /\ [][NextLegacy]_vars

\* Some handle emits 'drain'.
StreamDrained == \E h \in 1..MaxStreams : HandleDrained(h)

\* The in-process session writing to a handle that can fill up.
NextPressure ==
    \/ start_inproc
    \/ getAudioStreamResolved
    \/ startAudioCaptureResumed
    \/ Frame(MaxFrames)
    \/ WriteReturnsFalse
    \/ StreamDrained
    \/ stop

SpecPressure == Init /\ [][NextPressure]_vars

\* The bytes of the buffer the worklet posts for a block of n samples.
postedBytes(n) == n * BytesPerInt16

\* The length of a Float32Array laid over a buffer of that many bytes, 0 when
\* the constructor throws because the byte length is no multiple of 4.
Float32Length(bytes) ==
    IF bytes % BytesPerFloat32 = 0 THEN bytes \div BytesPerFloat32 ELSE 0

\* The samples the message handler writes for a posted buffer: the session
\* with reconnect writes an Int16Array as long as the Float32Array it laid
\* over the buffer, the session without reconnect writes the buffer as it is.
onmessageSamples(bytes) ==
    IF variant = "legacy" THEN bytes \div BytesPerInt16 ELSE Float32Length(bytes)

\* AudioProcessor.process is handed q input samples: each goes into the
\* buffer, and every time the buffer is full it is converted, posted, and
\* handled by the session's message handler.
process(q) ==
    /\ capturePath = "worklet"
    /\ LET total == bufferIndex + q
           k == total \div WorkletBufferSize
       IN /\ bufferIndex' = total % WorkletBufferSize
          /\ pcmFrame' = IF k = 0 THEN pcmFrame
                         ELSE [by |-> "onmessage",
                               captured |-> k * WorkletBufferSize,
                               samples |-> k * onmessageSamples(postedBytes(WorkletBufferSize))]
    /\ UNCHANGED <<sessionVars, captureVars, soxVars, frameVars, stopVars, envVars,
                   soxEnvVars, dataVars, sample, converted, startCalls, spawns,
                   backendEvents, pc, now, timeouts, events, fatal, restartAt>>

\* The script processor hands over one input block, which is converted into
\* an Int16Array of the same length and written.
ScriptBlock ==
    /\ capturePath = "script"
    /\ LET n == IF variant = "legacy" THEN LegacyScriptBufferSize ELSE ScriptBufferSize
       IN pcmFrame' = [by |-> "onaudioprocess", captured |-> n, samples |-> n]
    /\ UNCHANGED <<sessionVars, captureVars, soxVars, frameVars, stopVars, envVars,
                   soxEnvVars, dataVars, sample, converted, bufferIndex, startCalls, spawns,
                   backendEvents, pc, now, timeouts, events, fatal, restartAt>>

\* The audio graph delivers up to MaxQuantum samples to the worklet.
WorkletInput == \E q \in 1..MaxQuantum : process(q)

\* An in-process session of either kind, on either capture path.
InitBlock ==
    /\ variant \in {"inproc", "legacy"}
    /\ capturePath \in {"worklet", "script"}
    /\ lateness = 0
    /\ soxInstalled = TRUE
    /\ checksSox = FALSE
    /\ sample = 0
    /\ InitFields

NextBlock ==
    \/ WorkletInput
    \/ ScriptBlock

SpecBlock == InitBlock /\ [][NextBlock]_vars

\* startAudioCapture() throws while it sets the pipeline up (the AudioContext
\* cannot be created, or the fallback cannot connect the media stream): its
\* catch logs and rethrows, and the promise it returned, which
\* createRecognizeStream dropped, is rejected.
startAudioCaptureThrew ==
    /\ capturePending > 0
    /\ capturePending' = capturePending - 1
    /\ UNCHANGED <<sessionVars, audioStream, audioContext, pipelines, soxVars, frameVars,
                   stopVars, envVars, extVars, startCalls, spawns, backendEvents, pc, now,
                   timeouts, events, fatal, restartAt>>

\* The in-process session where setting up the capture can fail.
NextCapture ==
    \/ start_inproc
    \/ getAudioStreamResolved
    \/ getAudioStreamRejected
    \/ startAudioCaptureResumed
    \/ startAudioCaptureThrew
    \/ Frame(MaxDirect)
    \/ StreamError
    \/ StreamEnd
    \/ TimeoutFire
    \/ stop

SpecCapture == Init /\ [][NextCapture]_vars

\* start() of the recording-process session when spawn() throws instead of
\* returning a process: isRecording is already true and startRecognition()
\* has opened the handle and set the interval; the catch of start() emits
\* 'error' and rethrows, and undoes nothing.
callStart_soxThrew(from) ==
    /\ variant = "sox"
    /\ pc = from
    /\ ~(checksSox /\ ~soxInstalled)
    /\ Len(streams) < MaxStreams
    /\ startCalls' = startCalls + 1
    /\ isRecording' = TRUE
    /\ createRecognizeStream(now)
    /\ events' = Append(events, "error")
    /\ pc' = "failed"
    /\ UNCHANGED <<audioStream, audioContext, pipelines, soxVars, frameVars, stopVars,
                   envVars, extVars, spawns, backendEvents, now, timeouts, fatal>>

\* The caller starts a fresh recording-process session and spawn() throws.
start_soxThrew ==
    /\ stopCalls = 0
    /\ callStart_soxThrew("idle")

\* Start-up of either kind of session, where start() can raise at each of
\* the places it can raise.
NextRaise ==
    \/ NextSox
    \/ start_soxThrew

SpecRaise == InitSox /\ [][NextRaise]_vars

\* The caller calls start() again on an in-process session it has stopped.
startAfterStop_inproc ==
    /\ stopCalls > 0
    /\ ~isRecording
    /\ startCalls < MaxStarts
    /\ callStart_inproc("started")

\* The in-process session started, stopped and started again on the same
\* object.
NextRestart ==
    \/ start_inproc
    \/ startAfterStop_inproc
    \/ getAudioStreamResolved
    \/ startAudioCaptureResumed
    \/ Frame(MaxDirect)
    \/ StreamError
    \/ StreamEnd
    \/ TimeoutFire
    \/ stop

SpecRestart == Init /\ [][NextRestart]_vars

\* ------------------------------------------------------------ properties

\* No backend 'error' or 'end' has reached the current handle.
Quiet ==
    /\ recognizeStream # 0
    /\ ~streams[recognizeStream].erred
    /\ ~streams[recognizeStream].endEmitted

\* C1: for a handle opened at T in an active session with no backend end or
\* error, once T+230 s is reached the refresh check has called restartStream,
\* and it did so no later than T+230 s.
C1_ProactiveRefresh ==
    (isRecording /\ Quiet /\ now >= streamStartTime + RefreshAfterMs)
        => (restartAt # -1 /\ restartAt <= streamStartTime + RefreshAfterMs)

InGap(e) == \E i \in 1..Len(gap) : gap[i] = e.f

FramesOf(w) == [i \in 1..Len(w) |-> w[i].f]

\* A replacement handle is opened by this step of the in-process session.
ReconnectCompletes ==
    /\ variant = "inproc"
    /\ Len(streams) >= 1
    /\ Len(streams') = Len(streams) + 1

\* C2: when a reconnect completes, every one of the N <= 30 frames captured
\* while the session was active with no usable handle has been written to a
\* handle exactly once and in capture order, on both capture paths.
C2_NoAudioLoss ==
    [][(ReconnectCompletes /\ Len(gap) <= BufferMax)
          => FramesOf(SelectSeq(written', InGap)) = gap]_vars

\* C3: the audio buffer never holds more than 30 frames, and it holds exactly
\* the most recent min(n, 30) of the n frames that arrived while the session
\* was active with no usable handle, in capture order.
C3_BoundedStaleness ==
    /\ Len(audioBuffer) <= BufferMax
    /\ audioBuffer = LastK(gap, BufferMax)

\* C4: a backend error classified as expiry emits no event in any state of the
\* session; it only schedules a reconnect.
C4_ExpiryTransparency ==
    [][\A h \in 1..MaxStreams, msg \in Messages :
          (IsExpiry(msg) /\ BackendError(h, msg))
              => (events' = events /\ timeouts' = Append(timeouts, now + RestartDelayMs))]_vars

\* An expiry error has hit a handle and the caller has seen no 'error'.
C4_Witness ==
    /\ \E h \in 1..Len(streams) : streams[h].erred
    /\ Count("error", events) = 0
    /\ timeouts # <<>>

\* C5: a non-expiry error on the current handle emits exactly 'error' followed
\* by 'stop'.
C5_FatalErrorThenStop ==
    [][\A h \in 1..MaxStreams, msg \in Messages :
          (~IsExpiry(msg) /\ h = recognizeStream /\ BackendError(h, msg))
              => events' = events \o <<"error", "stop">>]_vars

\* C6: once a non-expiry error has hit the current handle the session is
\* inactive, no refresh timer is scheduled and no handle is opened any more.
C6_FatalTerminates ==
    /\ [](fatal => (~isRecording /\ intervals = {}))
    /\ [][fatal => Len(streams') = Len(streams)]_vars

\* C7: two calls of stop() emit one 'stop' event in total.
C7_IdempotentStop == (stopCalls >= 2) => (Count("stop", events) = 1)

IntervalIds(ivs) == {iv.id : iv \in ivs}

\* C8: once stop() has been called on a started session no handle is opened
\* and no refresh timer is created, whatever reconnects were scheduled.
C8_NoReconnectAfterStop ==
    [][(stoppedIn = "started")
          => (/\ Len(streams') = Len(streams)
              /\ IntervalIds(intervals') \subseteq IntervalIds(intervals))]_vars

\* stop() ran while a reconnect was scheduled, and that reconnect's callback
\* has run since.
C8_Witness ==
    /\ stoppedIn = "started"
    /\ pendingAtStop > 0
    /\ timeouts = <<>>

OpenHandles == {h \in 1..Len(streams) : ~streams[h].ended}

\* C9: at most one handle is open for writing; every handle that has been
\* replaced was ended, and every write goes to the most recent handle.
C9_OneWritableHandle ==
    /\ [](/\ Cardinality(OpenHandles) <= 1
          /\ \A h \in 1..(Len(streams) - 1) : streams[h].ended)
    /\ [][\A i \in (Len(written) + 1)..Len(written') : written'[i].h = Len(streams')]_vars

\* A handle has been replaced and frames were written before and after.
C9_Witness ==
    /\ Len(streams) >= 2
    /\ \E i \in 1..Len(written) : written[i].h = 1 /\ written[i].ok
    /\ \E i \in 1..Len(written) : written[i].h = 2 /\ written[i].ok

\* C10: a frame captured while the in-process session is active with no
\* usable handle is appended to the audio buffer.
C10_BufferedNotDropped ==
    [][(variant = "inproc" /\ nextFrame' = nextFrame + 1 /\ InGapWindow)
          => (audioBuffer' # <<>> /\ audioBuffer'[Len(audioBuffer')] = nextFrame')]_vars

\* C11: 'start' is emitted at most once, and when it has been emitted it is the
\* first event of the session: no reconnect emits it again and no 'interim',
\* 'final', 'error' or 'stop' precedes it.
C11_StartFirstOnce ==
    /\ Count("start", events) <= 1
    /\ (Count("start", events) = 1) => (events[1] = "start")

\* The first result of a response has at least one alternative.
HasAlternative(data) ==
    /\ Len(data) > 0
    /\ data[1].alternatives.present
    /\ Len(data[1].alternatives.items) > 0

\* C12: in every session implementation a response whose result has an
\* alternative emits exactly that first alternative's transcript, as 'final'
\* when the result is flagged final and as 'interim' otherwise; a result
\* without alternatives emits nothing and raises nothing.
C12_ResultHandling ==
    [][\A h \in 1..MaxStreams, data \in Responses :
          BackendData(h, data)
              => IF HasAlternative(data)
                   THEN /\ events' = Append(events, IF data[1].isFinal THEN "final" ELSE "interim")
                        /\ transcripts' = Append(transcripts, data[1].alternatives.items[1])
                        /\ ~thrown'
                   ELSE /\ events' = events
                        /\ transcripts' = transcripts
                        /\ ~thrown']_vars

\* A step of a start() that was called on an active session: the call itself,
\* or its continuation after getAudioStream().
ReentryStep ==
    \/ startCalls >= 1 /\ startCalls' = startCalls + 1
    \/ startCalls >= 2 /\ pc = "starting" /\ pc' # "starting"

\* C13: start() called on an active session opens no second handle, no second
\* audio source (capture pipeline or recording process), no second refresh
\* timer, and emits no event.
C13_StartReentryGuard ==
    [][ReentryStep
          => (/\ Len(streams') = Len(streams)
              /\ spawns' = spawns
              /\ capturePending' = capturePending
              /\ intervals' = intervals
              /\ events' = events)]_vars

\* Capture cannot start at all: the recording tool is missing, or start() has
\* thrown because the audio source could not be opened.
CannotStart == (variant = "sox" /\ ~soxInstalled) \/ pc = "failed"

\* C14: when capture cannot start at all 'start' is never emitted, and the
\* 'error' of a recording process that could not be launched does not follow
\* an emitted 'start'.
C14_FailureBeforeStart ==
    /\ [][(proc = "failing" /\ proc' = "failed") => Count("start", events) = 0]_vars
    /\ [](CannotStart => Count("start", events) = 0)

\* C15: any exit of the recording process while the session is recording
\* emits 'error' and terminates the session: handle closed, refresh timer
\* cancelled, session inactive.
C15_SourceTerminated ==
    [][\A code \in ExitCodes :
          (variant = "sox" /\ isRecording /\ ProcExit(code))
              => (/\ events' = Append(events, "error")
                  /\ ~isRecording'
                  /\ recognizeStream' = 0
                  /\ intervals' = {})]_vars

\* C16: every converter maps +1.0 and every input above it to 32767, and -1.0
\* and every input below it to -32768.
C16_ConversionEndpoints ==
    (converted.by # "none")
        => (/\ (sample >= SampleDen) => (converted.out = Int16Max)
            /\ (sample <= -SampleDen) => (converted.out = Int16Min))

\* C17: stop() called in any state leaves the session with no handle, no
\* scheduled refresh timer, no recording process, no capture resources and
\* isRecording false, and emits 'stop'; and the session stays that way.
C17_StopFromAnyState ==
    /\ [][(stopCalls' = stopCalls + 1)
             => (/\ recognizeStream' = 0
                 /\ intervals' = {}
                 /\ ~recordProcess'
                 /\ proc' # "running"
                 /\ ~audioContext'
                 /\ ~audioStream'
                 /\ pipelines' = 0
                 /\ ~isRecording'
                 /\ events' = Append(events, "stop"))]_vars
    /\ []((stopCalls > 0) => (recognizeStream = 0 /\ intervals = {} /\ ~isRecording))

TriggerStep ==
    /\ isRecording
    /\ \/ restartAt' # restartAt /\ restartAt' # -1
       \/ \E d \in BOOLEAN : BackendEnd(recognizeStream, d)
       \/ \E msg \in Messages : IsExpiry(msg) /\ BackendError(recognizeStream, msg)

\* A reconnect is scheduled for an active session whose latest handle is k.
ReconnectPending(k) ==
    /\ isRecording
    /\ stopCalls = 0
    /\ timeouts # <<>>
    /\ Len(streams) = k

\* C19: each trigger schedules a reconnect, and while the session is active
\* and stop() is not called a scheduled reconnect is eventually followed by a
\* replacement handle being open and usable.
C19_ReconnectLiveness ==
    /\ [][TriggerStep => Len(timeouts') = Len(timeouts) + 1]_vars
    /\ \A k \in 1..(MaxStreams - 1) :
          ReconnectPending(k) ~> (stopCalls > 0 \/ (Len(streams) > k /\ Usable /\ isRecording))

\* The refresh timer has triggered a reconnect and the replacement is open.
C19_Witness ==
    /\ stopCalls = 0
    /\ isRecording
    /\ Len(streams) = 2
    /\ Usable
    /\ ~streams[1].erred
    /\ ~streams[1].endEmitted
    /\ now >= RefreshAfterMs

\* The errors by which the backend reports its duration limit.
IsDurationLimit(msg) == IsExpiry(msg) \/ includes(msg, "duration")

\* C20: in the session the renderer loads, an error of the current handle
\* caused by the provider's duration limit emits no 'error' event and
\* schedules the opening of a replacement handle.
C20_LegacyExpiryRecovered ==
    [][\A h \in 1..MaxStreams, msg \in Messages :
          (variant = "legacy" /\ isRecording /\ h = recognizeStream
             /\ IsDurationLimit(msg) /\ BackendError(h, msg))
              => (events' = events /\ timeouts' # timeouts)]_vars

\* The writes this step adds.
NewWrites == SubSeq(written', Len(written) + 1, Len(written'))

\* C21: when the replacement handle is opened the buffered frames are written
\* to it in capture order and the buffer is left empty, so that on every
\* handle the frames arrive in capture order, buffered ones before later ones.
C21_DrainFifo ==
    /\ [][ReconnectCompletes
             => (/\ FramesOf(NewWrites) = audioBuffer
                 /\ \A i \in 1..Len(NewWrites) : NewWrites[i].h = recognizeStream'
                 /\ audioBuffer' = <<>>)]_vars
    /\ [](\A i \in 1..(Len(written) - 1) :
             (written[i].h = written[i + 1].h) => (written[i].f < written[i + 1].f))

\* The replacement handle has received buffered frames and then frames
\* captured after it was opened.
C21_Witness ==
    /\ stopCalls = 0
    /\ capturePath = "script"
    /\ Len(streams) = 2
    /\ \A i \in 1..Len(written) : written[i].h = 2
    /\ Len(written) > MaxDirect
    /\ direct = MaxDirect

\* A reconnect has been triggered for the active session and its replacement
\* handle is not open yet.
ReconnectScheduled ==
    /\ isRecording
    /\ timeouts # <<>>
    /\ recognizeStream # 0

\* C22: between a reconnect trigger and the opening of the replacement the
\* old handle, unless the backend already closed it, has been ended by the
\* session, and no frame is written to it.
C22_ReconnectStepOrder ==
    /\ []((ReconnectScheduled /\ Quiet) => streams[recognizeStream].ended)
    /\ [][ReconnectScheduled
             => \A i \in 1..Len(NewWrites) :
                    ~(NewWrites[i].h = recognizeStream /\ NewWrites[i].ok)]_vars

\* Every result of the response has at least one alternative.
AllHaveAlternative(data) ==
    \A i \in 1..Len(data) :
        data[i].alternatives.present /\ Len(data[i].alternatives.items) > 0

\* C23: a response carrying k >= 1 results that each have an alternative emits
\* k transcript events, one per result.
C23_OneEventPerResult ==
    [][\A h \in 1..MaxStreams, data \in Responses :
          (variant # "legacy" /\ Len(data) >= 1 /\ AllHaveAlternative(data)
             /\ BackendData(h, data))
              => Len(transcripts') = Len(transcripts) + Len(data)]_vars

\* C24: the transcript events are exactly the transcripts of the responses in
\* the order the backend delivered them: each one is appended, as 'final' or
\* 'interim', by the response that carries it, on whichever handle it arrives,
\* and nothing else changes them.
C24_TranscriptOrder ==
    [][(transcripts' # transcripts)
          => \E h \in 1..MaxStreams, data \in Responses :
                /\ BackendData(h, data)
                /\ HasAlternative(data)
                /\ transcripts' = Append(transcripts, data[1].alternatives.items[1])
                /\ events' = Append(events, IF data[1].isFinal THEN "final" ELSE "interim")]_vars

\* The same transcript was delivered twice, around a reconnect, and was
\* emitted twice.
C24_Witness ==
    /\ Len(streams) >= 2
    /\ transcripts = <<"hello", "hello">>
    /\ Count("interim", events) + Count("final", events) = 2

\* The request configuration every handle is to be opened with.
PcmRequest ==
    [encoding |-> "LINEAR16",
     sampleRateHertz |-> SampleRateHz,
     languageCode |-> languageCode,
     enableAutomaticPunctuation |-> TRUE,
     interimResults |-> TRUE]

\* C25: every handle of the session, the first and every replacement, was
\* opened with 16-bit linear PCM at 16000 Hz, the session's language code,
\* automatic punctuation and interim results.
C25_FixedRequest == \A h \in 1..Len(streams) : streams[h].request = PcmRequest

\* C26: the only refresh timer ever scheduled is the one the session points
\* at, so there is at most one; stop() leaves none scheduled, and completes
\* the same way when none was scheduled.
C26_SingleRefreshTimer ==
    /\ [](Cardinality(intervals) <= 1 /\ IntervalIds(intervals) \subseteq {refreshInterval})
    /\ [][(stopCalls' = stopCalls + 1)
             => (intervals' = {} /\ refreshInterval' = 0 /\ events' = Append(events, "stop"))]_vars

\* stop() cancelled the timer of a replacement handle, and a second stop()
\* found none to cancel.
C26_Witness ==
    /\ stopCalls = 2
    /\ stoppedIn = "started"
    /\ Len(streams) >= 2
    /\ intervals = {}

\* C27: once stop() has been called no capture callback writes a frame to a
\* handle or appends one to the audio buffer.
C27_NoFrameAfterStop ==
    [][(stopCalls > 0)
          => (/\ \A i \in 1..Len(NewWrites) : ~NewWrites[i].ok
              /\ Len(audioBuffer') <= Len(audioBuffer))]_vars

\* C28: a frame captured while the current handle is backpressuring is not
\* written to it but appended to the audio buffer.
C28_BackpressureBuffers ==
    [][(/\ variant = "inproc"
        /\ isRecording
        /\ Usable
        /\ streams[recognizeStream].needDrain
        /\ nextFrame' = nextFrame + 1)
          => (/\ written' = written
              /\ audioBuffer' = Append(audioBuffer, nextFrame'))]_vars

\* C29: every block written to the backend holds as many 16-bit samples as
\* the block that was captured, on the worklet path and on the fallback path.
C29_SampleCountPreserved ==
    (pcmFrame.by # "none") => (pcmFrame.samples = pcmFrame.captured)

\* C30: the 'end' event of a superseded handle, one the session ended itself
\* when it opened the replacement, schedules no further reconnect.
C30_NoReconnectStorm ==
    [][\A h \in 1..Len(streams) :
          (/\ isRecording
           /\ h # recognizeStream
           /\ streams[h].ended
           /\ ~streams[h].endEmitted
           /\ streams'[h].endEmitted)
             => (timeouts' = timeouts)]_vars

\* C31: reconnect triggers are coalesced, so at most one reconnect is
\* pending at any instant.
C31_TriggersCoalesced == Len(timeouts) <= 1

\* C32: the in-process session has at most one capture pipeline whose
\* callbacks fire, however many handles it has opened.
C32_OneCapturePipeline == (variant = "inproc") => (pipelines <= 1)

\* C33: when stop() of the in-process session returns, no capture pipeline
\* the session created is still running.
C33_StopReleasesCapture ==
    [][(variant = "inproc" /\ stopCalls' = stopCalls + 1) => (pipelines' = 0)]_vars

\* A step that emits 'start'.
EmitsStart == Len(events') = Len(events) + 1 /\ events'[Len(events')] = "start"

\* C34: the in-process session is active when it emits 'start', and a
\* backend 'end' on the current handle of a started session that was not
\* stopped schedules a reconnect.
C34_ActiveAtStart ==
    /\ [][(variant = "inproc" /\ EmitsStart) => isRecording']_vars
    /\ [][(/\ variant = "inproc" /\ pc = "started" /\ stopCalls = 0
           /\ recognizeStream # 0
           /\ ~streams[recognizeStream].endEmitted
           /\ streams'[recognizeStream].endEmitted)
             => (Len(timeouts') = Len(timeouts) + 1)]_vars

\* C35: an in-process session that has emitted 'start', was not stopped, and
\* has no capture pipeline running or being set up has reported an error.
C35_CaptureFailureSurfaced ==
    (/\ variant = "inproc" /\ includes(events, "start") /\ stopCalls = 0
     /\ capturePending = 0 /\ pipelines = 0)
       => includes(events, "error")

\* C36: once start() has raised, the session is inactive, has no interval
\* scheduled, no handle open and no recording process running.
C36_FailedStartLeavesNothing ==
    (pc = "failed")
       => (/\ ~isRecording
           /\ refreshInterval = 0
           /\ intervals = {}
           /\ recognizeStream = 0
           /\ proc \notin {"running", "failing"})

\* C37: once stop() has killed the recording process, nothing the process
\* or its pipe does makes the session emit 'error' (backend events aside).
C37_StopCausesNoError ==
    [][(/\ variant = "sox" /\ proc = "killed"
        /\ backendEvents' = backendEvents
        /\ Len(events') = Len(events) + 1)
          => (events'[Len(events')] # "error")]_vars

\* C38: whenever the in-process session has a usable handle, its audio
\* buffer is empty.
C38_BufferEmptyWhenUsable == (variant = "inproc" /\ Usable) => (audioBuffer = <<>>)

====
